---- MODULE Spec2Model ----
(***************************************************************************)
(* Cars REST API (app/ package): the in-memory CarService, the pydantic    *)
(* models that validate request bodies and Car records, and the /cars      *)
(* route handlers that map service results to HTTP responses.              *)
(*                                                                         *)
(* One action per route handler; each action runs the whole handler: body  *)
(* validation by the framework, the service call, and the mapping of the   *)
(* service's result (or raised ValueError) to a status code.               *)
(*                                                                         *)
(* Values.  A JSON body is a function from the field names it carries to   *)
(* optional values: <<>> is an explicit null, <<v>> the value v.  A field  *)
(* missing from the body is missing from the function's domain.  Text is   *)
(* a TLA+ string, year an integer, price an integer number of hundredths   *)
(* (1 is 0.01).  A timestamp is an integer clock reading.                  *)
(*                                                                         *)
(* Environment.  uuid.uuid4() is modelled as a draw that never repeats a   *)
(* value it returned before (issued), datetime.utcnow() as a clock that    *)
(* never decreases (now, advanced by Tick) and may return the same reading *)
(* twice.                                                                  *)
(***************************************************************************)
EXTENDS Integers, Sequences, FiniteSets, TLC

VARIABLES
    cars_db,   \* CarService._cars_db: car id -> Car
    now,       \* the reading datetime.utcnow() returns
    issued,    \* the values uuid.uuid4() has returned so far
    deleted,   \* history: the ids a DELETE has removed
    req,       \* the last request handled
    resp,      \* the response to it
    pre,       \* history: cars_db, issued, deleted and now when that request arrived
    nreq       \* number of requests handled

vars == <<cars_db, now, issued, deleted, req, resp, pre, nreq>>

----------------------------------------------------------------------------
\* Bounds of the model.

MaxClock == 2
MaxReq == 3

----------------------------------------------------------------------------
\* app/models/car.py: field constraints.

MinLength == 1
MakeMaxLength == 50
ModelMaxLength == 50
ColorMaxLength == 30
YearGe == 1900
YearLe == 2030
PriceGt == 0

Fields == {"make", "model", "year", "color", "price"}

\* JSON null, and a present value.
Null == <<>>
Some(v) == <<v>>

\* FieldOk with price's gt=0 taken as ge=0.
FieldOk_price_ge(f, v) ==
    CASE f = "make"  -> Len(v) >= MinLength /\ Len(v) <= MakeMaxLength
      [] f = "model" -> Len(v) >= MinLength /\ Len(v) <= ModelMaxLength
      [] f = "year"  -> v >= YearGe /\ v <= YearLe
      [] f = "color" -> Len(v) >= MinLength /\ Len(v) <= ColorMaxLength
      [] f = "price" -> v >= PriceGt

\* One field's Field(...) constraint on a non-null value.
FieldOk(f, v) ==
    CASE f = "make"  -> Len(v) >= MinLength /\ Len(v) <= MakeMaxLength
      [] f = "model" -> Len(v) >= MinLength /\ Len(v) <= ModelMaxLength
      [] f = "year"  -> v >= YearGe /\ v <= YearLe
      [] f = "color" -> Len(v) >= MinLength /\ Len(v) <= ColorMaxLength
      [] f = "price" -> v > PriceGt

\* CarBase (CarCreate, CarUpdate): every field required, none null, each
\* within its constraint.
CarBase_valid(body) ==
    /\ Fields \subseteq DOMAIN body
    /\ \A f \in Fields : body[f] # Null /\ FieldOk(f, body[f][1])

\* CarPartialUpdate: every field Optional with default None; a field that
\* is present and not null must meet its constraint.
CarPartialUpdate_valid(body) ==
    \A f \in DOMAIN body : body[f] = Null \/ FieldOk(f, body[f][1])

\* model_dump() of a validated CarCreate / CarUpdate.
model_dump(body) == [f \in Fields |-> body[f]]

\* model_dump(exclude_unset=True) of a validated CarPartialUpdate: the
\* fields the body carried, null ones included.
model_dump_exclude_unset(body) == [f \in DOMAIN body \cap Fields |-> body[f]]

\* Car(id=..., created_at=..., updated_at=..., make=..., ...): validation
\* of the keyword values, then the record.
Car_valid(vals) ==
    \A f \in Fields : vals[f] # Null /\ FieldOk(f, vals[f][1])

Car(id, created_at, updated_at, vals) ==
    [id |-> id,
     make |-> vals["make"][1],
     model |-> vals["model"][1],
     year |-> vals["year"][1],
     color |-> vals["color"][1],
     price |-> vals["price"][1],
     created_at |-> created_at,
     updated_at |-> updated_at]

----------------------------------------------------------------------------
\* app/services/car_service.py

\* del replaced by dict.clear().
DelItem_clear(db, k) == <<>>

\* dict item assignment and deletion.
SetItem(db, k, v) == [x \in DOMAIN db \cup {k} |-> IF x = k THEN v ELSE db[x]]
DelItem(db, k) == [x \in DOMAIN db \ {k} |-> db[x]]

\* dict_get that always keeps the stored value.
dict_get_ignores_update(d, f, default) == <<default>>

\* dict_get written as update_data.get(key) or default: None counts as missing.
dict_get_none_as_missing(d, f, default) ==
    IF f \in DOMAIN d /\ d[f] # <<>> THEN d[f] ELSE <<default>>

\* dict.get(key, default) on update_data, the default being a stored value.
dict_get(d, f, default) == IF f \in DOMAIN d THEN d[f] ELSE Some(default)

\* A service call's outcome: the store after it, the Optional[Car] (or bool)
\* it returns, and the message of the ValueError it raises, if any.
Outcome(db, ret, raised) == [db |-> db, ret |-> ret, raised |-> raised]

get_all_cars(db) == {db[k] : k \in DOMAIN db}

get_car_by_id(db, car_id) == IF car_id \in DOMAIN db THEN Some(db[car_id]) ELSE Null

svc_create_car(db, car_id, timestamp, car_data) ==
    LET new_car == Car(car_id, timestamp, timestamp, model_dump(car_data))
    IN  Outcome(SetItem(db, car_id, new_car), Some(new_car), Null)

\* update_car that stamps created_at anew.
svc_update_car_resets_created_at(db, car_id, timestamp, car_data) ==
    IF car_id \notin DOMAIN db
    THEN Outcome(db, Null, Null)
    ELSE LET updated_car == Car(car_id, timestamp, timestamp, model_dump(car_data))
         IN  Outcome(SetItem(db, car_id, updated_car), Some(updated_car), Null)

\* update_car that creates the record when the id is not stored.
svc_update_car_upsert(db, car_id, timestamp, car_data) ==
    LET created_at == IF car_id \in DOMAIN db THEN db[car_id].created_at
                      ELSE timestamp
        updated_car == Car(car_id, created_at, timestamp, model_dump(car_data))
    IN  Outcome(SetItem(db, car_id, updated_car), Some(updated_car), Null)

svc_update_car(db, car_id, timestamp, car_data) ==
    IF car_id \notin DOMAIN db
    THEN Outcome(db, Null, Null)
    ELSE LET existing_car == db[car_id]
             updated_car == Car(car_id, existing_car.created_at, timestamp,
                                model_dump(car_data))
         IN  Outcome(SetItem(db, car_id, updated_car), Some(updated_car), Null)

\* partial_update_car without the "No fields provided" check.
svc_partial_update_car_no_empty_check(db, car_id, timestamp, car_data) ==
    IF car_id \notin DOMAIN db
    THEN Outcome(db, Null, Null)
    ELSE LET existing_car == db[car_id]
             update_data == model_dump_exclude_unset(car_data)
             vals == [f \in Fields |-> dict_get(update_data, f, existing_car[f])]
         IN  IF ~Car_valid(vals)
             THEN Outcome(db, Null, Some("validation error for Car"))
             ELSE LET updated_car == Car(car_id, existing_car.created_at,
                                         timestamp, vals)
                  IN  Outcome(SetItem(db, car_id, updated_car),
                              Some(updated_car), Null)

\* partial_update_car with created_at and updated_at swapped.
svc_partial_update_car_swaps_timestamps(db, car_id, timestamp, car_data) ==
    IF car_id \notin DOMAIN db
    THEN Outcome(db, Null, Null)
    ELSE LET existing_car == db[car_id]
             update_data == model_dump_exclude_unset(car_data)
             vals == [f \in Fields |-> dict_get(update_data, f, existing_car[f])]
         IN  IF DOMAIN update_data = {}
             THEN Outcome(db, Null, Some("No fields provided for update"))
             ELSE IF ~Car_valid(vals)
             THEN Outcome(db, Null, Some("validation error for Car"))
             ELSE LET updated_car == Car(car_id, timestamp,
                                         existing_car.created_at, vals)
                  IN  Outcome(SetItem(db, car_id, updated_car),
                              Some(updated_car), Null)

svc_partial_update_car(db, car_id, timestamp, car_data) ==
    IF car_id \notin DOMAIN db
    THEN Outcome(db, Null, Null)
    ELSE LET existing_car == db[car_id]
             update_data == model_dump_exclude_unset(car_data)
             vals == [f \in Fields |-> dict_get(update_data, f, existing_car[f])]
         IN  IF DOMAIN update_data = {}
             THEN Outcome(db, Null, Some("No fields provided for update"))
             ELSE IF ~Car_valid(vals)
             THEN Outcome(db, Null, Some("validation error for Car"))
             ELSE LET updated_car == Car(car_id, existing_car.created_at,
                                         timestamp, vals)
                  IN  Outcome(SetItem(db, car_id, updated_car),
                              Some(updated_car), Null)

\* delete_car written as pop(car_id, None); return True.
svc_delete_car_always_true(db, car_id) == Outcome(DelItem(db, car_id), TRUE, Null)

svc_delete_car(db, car_id) ==
    IF car_id \in DOMAIN db
    THEN Outcome(DelItem(db, car_id), TRUE, Null)
    ELSE Outcome(db, FALSE, Null)

----------------------------------------------------------------------------
\* Requests and responses.

HTTP_200_OK == 200
HTTP_201_CREATED == 201
HTTP_204_NO_CONTENT == 204
HTTP_400_BAD_REQUEST == 400
HTTP_404_NOT_FOUND == 404
HTTP_422_UNPROCESSABLE == 422

Request(op, car_id, body) == [op |-> op, car_id |-> car_id, body |-> body]

\* status, detail of an error, the Car returned (<<>> if none), and the
\* list GET /cars returns.
Response(status, detail, car, cars) ==
    [status |-> status, detail |-> detail, car |-> car, cars |-> cars]

NotFound(car_id) ==
    Response(HTTP_404_NOT_FOUND, <<"Car with id", car_id, "not found">>, Null, {})

BadRequest(msg) == Response(HTTP_400_BAD_REQUEST, <<msg>>, Null, {})

\* The framework's answer to a body that fails the parameter's model.
Unprocessable == Response(HTTP_422_UNPROCESSABLE, <<"validation error">>, Null, {})

----------------------------------------------------------------------------
\* Inputs.

UUIDS == {"uuid-1", "uuid-2"}

Str50 == "MMMMMMMMMMMMMMMMMMMMMMMMMMMMMMMMMMMMMMMMMMMMMMMMMM"
Str51 == "MMMMMMMMMMMMMMMMMMMMMMMMMMMMMMMMMMMMMMMMMMMMMMMMMMM"
Str30 == "cccccccccccccccccccccccccccccc"
Str31 == "ccccccccccccccccccccccccccccccc"

BodyA == [make |-> Some("Toyota"), model |-> Some("Corolla"), year |-> Some(2022),
          color |-> Some("blue"), price |-> Some(2000000)]

\* Every field on the accepted side of its boundary.
BodyB == [make |-> Some(Str50), model |-> Some("M"), year |-> Some(1900),
          color |-> Some(Str30), price |-> Some(1)]

Restrict(body, S) == [f \in S |-> body[f]]

\* Bodies for POST /cars: two valid ones, and one on the rejected side of
\* each boundary, with a null field, with a field missing.
CreateBodies ==
    {BodyA, BodyB,
     [BodyA EXCEPT !["year"] = Some(1899)],
     [BodyA EXCEPT !["year"] = Some(2031)],
     [BodyA EXCEPT !["price"] = Some(0)],
     [BodyA EXCEPT !["make"] = Some("")],
     [BodyA EXCEPT !["make"] = Some(Str51)],
     [BodyA EXCEPT !["color"] = Some(Str31)],
     [BodyA EXCEPT !["color"] = Null],
     Restrict(BodyA, Fields \ {"model"})}

\* Bodies for PUT /cars/{id}.
UpdateBodies ==
    {BodyA, BodyB,
     [BodyB EXCEPT !["price"] = Some(0)],
     [BodyB EXCEPT !["model"] = Null]}

\* Bodies for PATCH /cars/{id}: empty, one field, several, all; a null
\* field alone and beside a value; a value outside its constraint.
PartialBodies ==
    {Restrict(BodyB, {f}) : f \in Fields}
    \cup {<<>>,
          Restrict(BodyB, {"make", "year"}),
          BodyB,
          [color |-> Null],
          [year |-> Null],
          [make |-> Some("Honda"), price |-> Null],
          [year |-> Some(1899)],
          [price |-> Some(0)]}

\* Bodies for PATCH /cars/{id} that set every subset of the fields.
SubsetBodies == {Restrict(BodyB, S) : S \in SUBSET Fields}

----------------------------------------------------------------------------
\* app/services/car_service.py: the service's environment.

\* A generator that may return a value it returned before.
_generate_car_id_repeats == UUIDS

_generate_car_id == UUIDS \ issued

_get_current_timestamp == now

----------------------------------------------------------------------------
\* app/routes/cars.py

Snapshot == [db |-> cars_db, issued |-> issued, deleted |-> deleted, now |-> now]

Handled(r) ==
    /\ nreq < MaxReq
    /\ nreq' = nreq + 1
    /\ req' = r
    /\ pre' = Snapshot
    /\ UNCHANGED now

Init ==
    /\ cars_db = <<>>
    /\ now = 0
    /\ issued = {}
    /\ deleted = {}
    /\ req = Request("none", "", <<>>)
    /\ resp = Response(HTTP_200_OK, <<>>, Null, {})
    /\ pre = [db |-> <<>>, issued |-> {}, deleted |-> {}, now |-> 0]
    /\ nreq = 0

get_cars ==
    /\ Handled(Request("get_cars", "", <<>>))
    /\ resp' = Response(HTTP_200_OK, <<>>, Null, get_all_cars(cars_db))
    /\ UNCHANGED <<cars_db, issued, deleted>>

get_car(car_id) ==
    /\ Handled(Request("get_car", car_id, <<>>))
    /\ LET car == get_car_by_id(cars_db, car_id)
       IN  resp' = IF car = Null THEN NotFound(car_id)
                   ELSE Response(HTTP_200_OK, <<>>, car, {})
    /\ UNCHANGED <<cars_db, issued, deleted>>

create_car(car_data) ==
    /\ Handled(Request("create_car", "", car_data))
    /\ IF ~CarBase_valid(car_data)
       THEN /\ resp' = Unprocessable
            /\ UNCHANGED <<cars_db, issued>>
       ELSE \E car_id \in _generate_car_id :
               LET out == svc_create_car(cars_db, car_id,
                                         _get_current_timestamp, car_data)
               IN  /\ cars_db' = out.db
                   /\ issued' = issued \cup {car_id}
                   /\ resp' = Response(HTTP_201_CREATED, <<>>, out.ret, {})
    /\ UNCHANGED deleted

update_car(car_id, car_data) ==
    /\ Handled(Request("update_car", car_id, car_data))
    /\ IF ~CarBase_valid(car_data)
       THEN /\ resp' = Unprocessable
            /\ UNCHANGED cars_db
       ELSE LET out == svc_update_car(cars_db, car_id,
                                      _get_current_timestamp, car_data)
            IN  /\ cars_db' = out.db
                /\ resp' = IF out.ret = Null THEN NotFound(car_id)
                           ELSE Response(HTTP_200_OK, <<>>, out.ret, {})
    /\ UNCHANGED <<issued, deleted>>

partial_update_car(car_id, car_data) ==
    /\ Handled(Request("partial_update_car", car_id, car_data))
    /\ IF ~CarPartialUpdate_valid(car_data)
       THEN /\ resp' = Unprocessable
            /\ UNCHANGED cars_db
       ELSE LET out == svc_partial_update_car(cars_db, car_id,
                                              _get_current_timestamp, car_data)
            IN  /\ cars_db' = out.db
                /\ resp' = IF out.raised # Null THEN BadRequest(out.raised[1])
                           ELSE IF out.ret = Null THEN NotFound(car_id)
                           ELSE Response(HTTP_200_OK, <<>>, out.ret, {})
    /\ UNCHANGED <<issued, deleted>>

delete_car(car_id) ==
    /\ Handled(Request("delete_car", car_id, <<>>))
    /\ LET out == svc_delete_car(cars_db, car_id)
       IN  /\ cars_db' = out.db
           /\ deleted' = IF out.ret THEN deleted \cup {car_id} ELSE deleted
           /\ resp' = IF ~out.ret THEN NotFound(car_id)
                      ELSE Response(HTTP_204_NO_CONTENT, <<>>, Null, {})
    /\ UNCHANGED issued

\* datetime.utcnow() moves on between two requests.
Tick ==
    /\ now < MaxClock
    /\ now' = now + 1
    /\ UNCHANGED <<cars_db, issued, deleted, req, resp, pre, nreq>>

Next ==
    \/ get_cars
    \/ \E car_id \in UUIDS : get_car(car_id)
    \/ \E car_data \in CreateBodies : create_car(car_data)
    \/ \E car_id \in UUIDS, car_data \in UpdateBodies : update_car(car_id, car_data)
    \/ \E car_id \in UUIDS, car_data \in PartialBodies : partial_update_car(car_id, car_data)
    \/ \E car_id \in UUIDS : delete_car(car_id)
    \/ Tick

Spec == Init /\ [][Next]_vars

\* The same service driven by creates and by PATCH requests that set every
\* subset of the five fields.
NextMerge ==
    \/ \E car_data \in {BodyA, BodyB} : create_car(car_data)
    \/ \E car_id \in UUIDS, car_data \in SubsetBodies :
          partial_update_car(car_id, car_data)

SpecMerge == Init /\ [][NextMerge]_vars

----------------------------------------------------------------------------
\* What the properties below read off the last request.

EmptyUpdateDetail == <<"No fields provided for update">>

IsOp(op) == req.op = op

WasPresent == req.car_id \in DOMAIN pre.db

HasNull(body) == \E f \in DOMAIN body : body[f] = Null

StoreUnchanged == cars_db = pre.db

----------------------------------------------------------------------------
\* C1 as stated: a PATCH that sets no field is answered 400 "No fields
\* provided for update" whether or not the id is stored, and the store is
\* unchanged.
C1_EmptyUpdateRegardlessOfId ==
    (IsOp("partial_update_car") /\ DOMAIN req.body = {}) =>
        /\ resp = BadRequest("No fields provided for update")
        /\ StoreUnchanged

\* C1 amended: a PATCH that sets no field leaves the store unchanged; it is
\* answered 400 "No fields provided for update" when the id is stored and
\* 404 not found when it is not.
C1_EmptyUpdateWhenPresent ==
    (IsOp("partial_update_car") /\ DOMAIN req.body = {}) =>
        /\ StoreUnchanged
        /\ resp = IF WasPresent
                  THEN BadRequest("No fields provided for update")
                  ELSE NotFound(req.car_id)

C1_Witness ==
    /\ IsOp("partial_update_car")
    /\ DOMAIN req.body = {}
    /\ WasPresent
    /\ resp.status = HTTP_400_BAD_REQUEST

C3_ReplaceOverwritesAllFields ==
    IsOp("update_car") =>
        /\ (WasPresent /\ CarBase_valid(req.body)) => resp.status = HTTP_200_OK
        /\ resp.status = HTTP_200_OK =>
              /\ WasPresent
              /\ req.car_id \in DOMAIN cars_db
              /\ LET old == pre.db[req.car_id]
                     new == cars_db[req.car_id]
                 IN  /\ new.id = req.car_id
                     /\ new.id = old.id
                     /\ new.created_at = old.created_at
                     /\ new.updated_at >= old.updated_at
                     /\ \A f \in Fields : new[f] = req.body[f][1]
                     /\ resp.car = Some(new)

\* A PUT that changed the make and moved updated_at forward.
C3_Witness ==
    /\ IsOp("update_car")
    /\ resp.status = HTTP_200_OK
    /\ cars_db[req.car_id].updated_at > pre.db[req.car_id].updated_at
    /\ cars_db[req.car_id].make # pre.db[req.car_id].make

\* Whether the framework hands the last request's body to the handler.
BodyAccepted ==
    CASE IsOp("update_car") -> CarBase_valid(req.body)
      [] IsOp("partial_update_car") -> CarPartialUpdate_valid(req.body)
      [] OTHER -> TRUE

TargetsOneId == req.op \in {"get_car", "update_car", "partial_update_car", "delete_car"}

\* C4: get, replace, merge and delete on an id that is not stored answer
\* 404 not found once the body has passed the framework's validation, and
\* never change the store; at the service the same calls return None
\* (False for delete), raise nothing and leave the store as it was.
C4_AbsentIdIsNotFound ==
    /\ (TargetsOneId /\ ~WasPresent) =>
          /\ StoreUnchanged
          /\ BodyAccepted => resp = NotFound(req.car_id)
    /\ \A car_id \in UUIDS \ DOMAIN cars_db :
          /\ get_car_by_id(cars_db, car_id) = Null
          /\ svc_delete_car(cars_db, car_id) = Outcome(cars_db, FALSE, Null)
          /\ \A b \in UpdateBodies : CarBase_valid(b) =>
                svc_update_car(cars_db, car_id, now, b) = Outcome(cars_db, Null, Null)
          /\ \A b \in PartialBodies : CarPartialUpdate_valid(b) =>
                svc_partial_update_car(cars_db, car_id, now, b)
                    = Outcome(cars_db, Null, Null)

\* A PATCH with a valid, non-empty body on an id that was deleted.
C4_Witness ==
    /\ IsOp("partial_update_car")
    /\ req.car_id \in deleted
    /\ DOMAIN req.body = {"year"}
    /\ resp.status = HTTP_404_NOT_FOUND

\* C5: a POST with a valid body is answered 201 with a record whose id is
\* non-empty and was never issued before (so it is neither stored nor
\* deleted), whose created_at equals its updated_at, and which is stored
\* under that id.
C5_CreateIssuesFreshId ==
    IsOp("create_car") =>
        /\ CarBase_valid(req.body) => resp.status = HTTP_201_CREATED
        /\ resp.status = HTTP_201_CREATED =>
              /\ resp.car # Null
              /\ LET c == resp.car[1]
                 IN  /\ c.id # ""
                     /\ c.id \notin pre.issued
                     /\ c.id \notin DOMAIN pre.db
                     /\ c.id \notin pre.deleted
                     /\ c.created_at = c.updated_at
                     /\ c.id \in DOMAIN cars_db
                     /\ cars_db[c.id] = c

\* A create after another record was created and deleted.
C5_Witness ==
    /\ IsOp("create_car")
    /\ resp.status = HTTP_201_CREATED
    /\ pre.deleted # {}

\* C6: every stored Car has make and model of 1..50 characters, color of
\* 1..30 characters, year in 1900..2030 and price above 0; a request that
\* is answered 400 or 422 stores nothing, and a POST is answered 201 only
\* if its body meets every constraint.
C6_StoredCarsMeetConstraints ==
    /\ \A k \in DOMAIN cars_db :
          LET c == cars_db[k]
          IN  /\ Len(c.make) >= 1 /\ Len(c.make) <= 50
              /\ Len(c.model) >= 1 /\ Len(c.model) <= 50
              /\ Len(c.color) >= 1 /\ Len(c.color) <= 30
              /\ c.year >= 1900 /\ c.year <= 2030
              /\ c.price > 0
    /\ resp.status \in {HTTP_400_BAD_REQUEST, HTTP_422_UNPROCESSABLE} => StoreUnchanged
    /\ (IsOp("create_car") /\ resp.status = HTTP_201_CREATED) =>
          /\ DOMAIN req.body = Fields
          /\ \A f \in Fields : req.body[f] # Null
          /\ req.body["year"][1] >= 1900 /\ req.body["year"][1] <= 2030
          /\ req.body["price"][1] > 0

\* A record on the boundaries (year 1900, price 0.01) is stored, and a PATCH
\* that would set price 0 has just been rejected.
C6_Witness ==
    /\ IsOp("partial_update_car")
    /\ req.body = [price |-> Some(0)]
    /\ WasPresent
    /\ resp.status = HTTP_422_UNPROCESSABLE
    /\ cars_db[req.car_id].year = 1900
    /\ cars_db[req.car_id].price = 1

\* C7: every stored Car has created_at <= updated_at; no request changes
\* the created_at of a stored record; a successful PUT or PATCH sets
\* updated_at to the clock reading taken at that request.
C7_CreatedNotAfterUpdated ==
    /\ \A k \in DOMAIN cars_db : cars_db[k].created_at <= cars_db[k].updated_at
    /\ \A k \in DOMAIN cars_db \cap DOMAIN pre.db :
          cars_db[k].created_at = pre.db[k].created_at
    /\ (req.op \in {"update_car", "partial_update_car"} /\ resp.status = HTTP_200_OK) =>
          cars_db[req.car_id].updated_at = pre.now

\* A PATCH at a later clock reading than the record's creation.
C7_Witness ==
    /\ IsOp("partial_update_car")
    /\ resp.status = HTTP_200_OK
    /\ cars_db[req.car_id].created_at < cars_db[req.car_id].updated_at

\* C8: DELETE answers 204 and removes exactly the record of its id when the
\* id is stored, and answers 404 and removes nothing when it is not; a
\* DELETE of an id deleted before is answered 404; an id once deleted is
\* never stored again, and get on it returns nothing.
C8_DeleteIsPermanent ==
    /\ IsOp("delete_car") =>
          IF WasPresent
          THEN /\ resp.status = HTTP_204_NO_CONTENT
               /\ DOMAIN cars_db = DOMAIN pre.db \ {req.car_id}
               /\ \A k \in DOMAIN cars_db : cars_db[k] = pre.db[k]
          ELSE /\ resp = NotFound(req.car_id)
               /\ StoreUnchanged
    /\ (IsOp("delete_car") /\ req.car_id \in pre.deleted) =>
          resp.status = HTTP_404_NOT_FOUND
    /\ \A car_id \in deleted :
          /\ car_id \notin DOMAIN cars_db
          /\ get_car_by_id(cars_db, car_id) = Null

\* A second DELETE of the same id.
C8_Witness ==
    /\ IsOp("delete_car")
    /\ req.car_id \in pre.deleted
    /\ resp.status = HTTP_404_NOT_FOUND

\* C9: a PATCH whose body carries an explicit null never succeeds, is never
\* answered as an empty update and never changes the store; on a stored id
\* it is answered with a validation failure (400 from the Car constructor,
\* or 422 when another field of the body is itself invalid).
C9_NullIsRejected ==
    (IsOp("partial_update_car") /\ HasNull(req.body)) =>
        /\ StoreUnchanged
        /\ resp.status # HTTP_200_OK
        /\ resp.detail # EmptyUpdateDetail
        /\ WasPresent =>
              resp = IF CarPartialUpdate_valid(req.body)
                     THEN BadRequest("validation error for Car")
                     ELSE Unprocessable

\* A PATCH that sets make and sends price as null, on a stored id.
C9_Witness ==
    /\ IsOp("partial_update_car")
    /\ req.body = [make |-> Some("Honda"), price |-> Null]
    /\ WasPresent
    /\ resp.status = HTTP_400_BAD_REQUEST
    /\ cars_db[req.car_id].make # "Honda"

\* C10: every stored record's id is its key; a successful create adds one
\* new key and changes no other record; PUT and PATCH keep the set of ids
\* and every record but the targeted one; DELETE keeps every other record;
\* GET changes nothing.
C10_OnlyTargetTouched ==
    /\ \A k \in DOMAIN cars_db : cars_db[k].id = k
    /\ req.op \in {"get_cars", "get_car"} => StoreUnchanged
    /\ IsOp("get_cars") => resp.cars = {pre.db[k] : k \in DOMAIN pre.db}
    /\ (IsOp("create_car") /\ resp.status = HTTP_201_CREATED) =>
          /\ resp.car[1].id \notin DOMAIN pre.db
          /\ DOMAIN cars_db = DOMAIN pre.db \cup {resp.car[1].id}
          /\ \A k \in DOMAIN pre.db : cars_db[k] = pre.db[k]
    /\ (IsOp("create_car") /\ resp.status # HTTP_201_CREATED) => StoreUnchanged
    /\ req.op \in {"update_car", "partial_update_car"} =>
          /\ DOMAIN cars_db = DOMAIN pre.db
          /\ \A k \in DOMAIN pre.db \ {req.car_id} : cars_db[k] = pre.db[k]
    /\ IsOp("delete_car") =>
          /\ DOMAIN pre.db \ {req.car_id} \subseteq DOMAIN cars_db
          /\ DOMAIN cars_db \subseteq DOMAIN pre.db
          /\ \A k \in DOMAIN pre.db \ {req.car_id} : cars_db[k] = pre.db[k]

\* One of two stored records is deleted and the other stays.
C10_Witness ==
    /\ IsOp("delete_car")
    /\ resp.status = HTTP_204_NO_CONTENT
    /\ Cardinality(DOMAIN pre.db) = 2
    /\ Cardinality(DOMAIN cars_db) = 1

====
